---- MODULE Spec2Model ----
(***************************************************************************)
(* State-machine model of md_uploader.py: the orchestrator loop (main),    *)
(* the per-archive upload job (ChapterUploaderProcess) and the bearer      *)
(* session (AuthMD).  The platform API is the environment: every request   *)
(* draws its response from a small set.                                    *)
(***************************************************************************)
EXTENDS Integers, Sequences, FiniteSets, TLC

\* ------------------------------------------------------------------ bounds
MaxZips == 2            \* archives found in the uploads folder
MaxNames == 3           \* entry names an archive of a whole run may hold
MaxEntries == 4         \* entry names an archive of the batch loop may hold
MaxWindow == 3          \* largest configured number_of_images_upload
MaxTokens == 2          \* token pairs the auth endpoints hand out in a run
MaxQueue == 5           \* archives in the folder of a run long enough to re-authenticate
MaxDigits == 4          \* digits in the integer part of a chapter numeral
MaxVersions == 3        \* highest {vN} found in the uploaded area at the start
number_upload_retry == 2  \* config "upload_retry" (attempt limit)

\* ------------------------------------------------------- program constants
ratelimit_time == 2     \* config "ratelimit_time" default
None == -1              \* Python's None for ids and tokens

VARIABLES
  \* configuration
  images_upload_session,   \* window size
  has_credentials,         \* username and password are both set
  \* main()
  zips_to_upload,          \* archive names of the queue, in queue order
  index,                   \* 1-based position of the current job
  failed_uploads,          \* FailureLog: sequence of queue positions
  uploader_bound,          \* the local uploader_process is bound
  pc,                      \* where the single thread of control stands
  exception,               \* the exception that left main(), or "none"
  reported,                \* what the final report printed
  \* ChapterUploaderProcess
  info_list,               \* entries of the archive, in archive order
  valid_images_to_upload,
  images_to_upload,
  images_to_upload_names,  \* key -> entry name, over the windows read so far
  images_to_upload_ids,
  upload_session_id,
  start, stop, values,
  image_batch,             \* _upload_images' local batch
  retry,                   \* counter of the retry loop being run
  failed_image_upload,
  windows,                 \* the windows read so far: start, clipped stop, keys
  \* AuthMD and the credential record
  first_login, successful_login, refresh_token, token_file, headers,
  \* what the run did, as seen from outside
  reqs,                    \* requests sent by the last step, in order
  sleeps,                  \* time.sleep durations of the last step, in order
  opened,                  \* jobs whose draft-open POST yielded a draft id
  committed,               \* jobs whose commit POST returned 200
  deletes,                 \* draft ids a DELETE was issued for
  moved,                   \* jobs whose archive was moved to the uploaded area
  uploaded_files,          \* names listed in the uploaded area
  \* FileProcesser
  zip_prefix,              \* group "prefix" of the matched archive name
  zip_chapter,             \* group "chapter" of the matched archive name
  zip_language,            \* group "language" of the matched archive name
  chapter_number,          \* what _get_chapter_number made of them
  language                 \* what _get_language made of the language tag

\* what a job is handed and never changes: the configuration and the groups
\* of the matched name
namevars == <<zip_prefix, zip_chapter, zip_language>>
cfgvars == <<images_upload_session, has_credentials, namevars, chapter_number,
             language>>
mainvars == <<zips_to_upload, index, failed_uploads, uploader_bound, pc,
              exception, reported>>
jobvars == <<info_list, valid_images_to_upload, images_to_upload,
             images_to_upload_names, images_to_upload_ids, upload_session_id,
             start, stop, values, image_batch, retry, failed_image_upload,
             windows>>
authvars == <<first_login, successful_login, refresh_token, token_file, headers>>
envvars == <<reqs, sleeps, opened, committed, deletes, moved, uploaded_files>>
vars == <<cfgvars, mainvars, jobvars, authvars, envvars>>

\* -------------------------------------------------------- Optional[str]
\* a string is the sequence of its characters
NoneStr == [some |-> FALSE, val |-> <<>>]
Some(str) == [some |-> TRUE, val |-> str]
\* the attribute is not set yet
Unbound == [some |-> FALSE, val |-> <<"unbound">>]

\* the archive name is not looked into by the steps modelled
NoName ==
  /\ zip_prefix = NoneStr
  /\ zip_chapter = NoneStr
  /\ zip_language = NoneStr
  /\ chapter_number = Unbound
  /\ language = Unbound

\* ------------------------------------------------------ Python list helpers
Range(s) == {s[i] : i \in 1..Len(s)}

Min(a, b) == IF a <= b THEN a ELSE b

\* s[a:b] for 0 <= a
Slice(s, a, b) == SubSeq(s, a + 1, Min(b, Len(s)))

\* s.index(x): position of the first occurrence, 0-based
ListIndex(s, x) == (CHOOSE i \in 1..Len(s) : s[i] = x /\ \A j \in 1..(i - 1) : s[j] # x) - 1

\* s.insert(i, x): x goes before position i, or at the end when i >= len(s)
ListInsert(s, i, x) ==
  LET p == Min(i, Len(s))
  IN SubSeq(s, 1, p) \o <<x>> \o SubSeq(s, p + 1, Len(s))

\* [x for x in s if x in keep], order of s kept
RECURSIVE Filter(_, _)
Filter(s, keep) ==
  IF s = <<>> THEN <<>>
  ELSE IF Head(s) \in keep THEN <<Head(s)>> \o Filter(Tail(s), keep)
       ELSE Filter(Tail(s), keep)

\* every sequence without repetition over S of length at most n
RECURSIVE InjSeqs(_, _)
InjSeqs(S, n) ==
  IF n = 0 THEN {<<>>}
  ELSE LET shorter == InjSeqs(S, n - 1)
       IN shorter \cup {Append(q, x) : q \in shorter, x \in S}

NoRepeat(q) == \A i, j \in 1..Len(q) : i # j => q[i] # q[j]

\* ------------------------------------------------------------ archive names
\* An entry name is a number; its value is its rank in natural order.  Every
\* fourth name is not an image (a directory or another suffix); names of
\* residue 1 begin with a punctuation character.
IsImage(n) == n % 4 # 0
IsPunctuation(n) == n % 4 = 1
\* the archives over the names 1..n: no two entries share a name
Archives(n) == {q \in InjSeqs(1..n, n) : NoRepeat(q)}

\* ------------------------------------------------------------- ImageBatcher
\* _key: a name that begins with punctuation sorts as 0, ahead of every name
_key(x) == IF IsPunctuation(x) THEN 0 ELSE x

\* one step of a stable sort: x goes behind every element whose key is <= its own
RECURSIVE InsertByKey(_, _)
InsertByKey(s, x) ==
  IF s = <<>> THEN <<x>>
  ELSE IF _key(s[Len(s)]) <= _key(x) THEN Append(s, x)
       ELSE Append(InsertByKey(SubSeq(s, 1, Len(s) - 1), x), s[Len(s)])

\* natsorted(list, key=self._key)
RECURSIVE natsorted(_)
natsorted(s) ==
  IF s = <<>> THEN <<>>
  ELSE InsertByKey(natsorted(SubSeq(s, 1, Len(s) - 1)), s[Len(s)])

\* the image-suffixed, non-directory entries, in archive order
info_list_images_only(info) == Filter(info, {n \in Range(info) : IsImage(n)})

\* the page index frozen for the job: computed while the list is still empty
FrozenIndex(info, valid) ==
  IF valid = <<>> THEN natsorted(info_list_images_only(info)) ELSE valid

\* stop clipped to the number of pages
ClippedStop(valid, stp) == IF stp <= Len(valid) THEN stp ELSE Len(valid)

\* the entries of the window, in archive order
images_to_read(info, valid, strt, stp) ==
  Filter(info, Range(Slice(valid, strt, ClippedStop(valid, stp))))

\* a slip: the key taken 1-based, as enumerate(..., start=1) counts
renamed_file_one_based(valid, image) == ListIndex(valid, image) + 1

\* the key a page is uploaded under: its position in the frozen index
renamed_file(valid, image) == ListIndex(valid, image)

\* the window's payload, as the set of its keys
files(info, valid, strt, stp) ==
  {renamed_file(valid, image) : image \in Range(images_to_read(info, valid, strt, stp))}

\* the last entry read is the last page of the index
zip_end(info, valid, strt, stp) ==
  LET r == images_to_read(info, valid, strt, stp)
  IN r[Len(r)] = valid[Len(valid)]

\* images_to_upload_names.update({renamed_file: image_filename}) for each
\* entry read
names_update(old, info, valid, strt, stp) ==
  LET r == Range(images_to_read(info, valid, strt, stp))
      new == {renamed_file(valid, image) : image \in r}
  IN [k \in DOMAIN old \cup new |->
        IF k \in new THEN CHOOSE image \in r : renamed_file(valid, image) = k
        ELSE old[k]]

NoValues == <<>>      \* _get_images_to_upload returned None

\* a slip: the next window starts one page behind the clipped stop
next_window_skips(info, valid, strt, stp, w) ==
  LET c == ClippedStop(valid, stp)
  IN IF zip_end(info, valid, strt, stp) THEN NoValues
     ELSE <<c + 1, IF c >= Len(valid) THEN Len(valid) ELSE c + w>>

\* the next window, or None at the end of the archive
next_window(info, valid, strt, stp, w) ==
  LET c == ClippedStop(valid, stp)
  IN IF zip_end(info, valid, strt, stp) THEN NoValues
     ELSE <<c, IF c >= Len(valid) THEN Len(valid) ELSE c + w>>

\* ------------------------------------------------------------ platform API
Req(ep, arg, status) == [ep |-> ep, arg |-> arg, status |-> status]

\* a response: its status and whether convert_json can read its body
Resp(status, json) == [status |-> status, json |-> json]
ErrorStatuses == {401, 403, 429, 500}
Responses ==
  {Resp(200, TRUE), Resp(200, FALSE)} \cup {Resp(c, FALSE) : c \in ErrorStatuses}

\* a slip: the standard delay on 429 in place of the extended cooldown
print_error_short(status) == IF status = 429 THEN <<ratelimit_time>> ELSE <<>>

\* print_error sleeps the extended cooldown on 429 and nowhere else
print_error(status) == IF status = 429 THEN <<ratelimit_time * 4>> ELSE <<>>

RemoteId(k) == 100 + k     \* the id the server gives the page stored under key k
DraftId(j) == j            \* the id the server gives the draft of job j
StaleDraftId == DraftId(0) \* a draft left open by an earlier run

\* ------------------------------------------------------------------ AuthMD
Auth == [first_login |-> first_login, successful_login |-> successful_login,
         refresh_token |-> refresh_token, token_file |-> token_file,
         headers |-> headers]

Outcome(ok, exc, a, rq, sl) ==
  [ok |-> ok, exc |-> exc, a |-> a, reqs |-> rq, sleeps |-> sl]

\* the auth endpoints hand out at most MaxTokens fresh token pairs
NewToken(a) == (IF a.token_file = None THEN 0 ELSE a.token_file) + 1
AuthResponses(a) ==
  {r \in Responses : (r.status = 200 /\ r.json) => NewToken(a) <= MaxTokens}

_open_auth_file(a) == a.token_file

\* a slip: the bearer header is set and the record is not written
InstallToken_header_only(a, t) == [a EXCEPT !.headers = t]

\* _update_headers and _save_session with the returned token pair
InstallToken(a, t) == [a EXCEPT !.headers = t, !.token_file = t]

_login_using_details(a) ==
  IF ~has_credentials
  THEN {Outcome(FALSE, "Login details missing.", a, <<>>, <<>>)}
  ELSE {IF r.status = 200 /\ r.json
        THEN Outcome(TRUE, "none", InstallToken(a, NewToken(a)),
                     <<Req("auth/login", None, 200)>>, <<>>)
        ELSE Outcome(FALSE, "none", a, <<Req("auth/login", None, r.status)>>,
                     print_error(r.status))
        : r \in AuthResponses(a)}

_refresh_token(a) ==
  UNION {
    LET rq == <<Req("auth/refresh", a.refresh_token, r.status)>>
    IN IF r.status = 200
       THEN {IF r.json
             THEN Outcome(TRUE, "none", InstallToken(a, NewToken(a)), rq, <<>>)
             ELSE Outcome(FALSE, "none", a, rq, <<>>)}
       ELSE IF r.status \in {401, 403}
       THEN {[o EXCEPT !.reqs = rq \o o.reqs,
                       !.sleeps = print_error(r.status) \o o.sleeps]
             : o \in _login_using_details(a)}
       ELSE {Outcome(FALSE, "none", a, rq, print_error(r.status))}
    : r \in AuthResponses(a)}

\* GET /auth/check: 200 with isAuthenticated true or false, or an error status
CheckResponses == {Req("auth/check", TRUE, 200), Req("auth/check", FALSE, 200),
                   Req("auth/check", FALSE, 500)}

_check_login(a) ==
  UNION {
    IF c.status = 200 /\ c.arg
    THEN {Outcome(TRUE, "none", a, <<c>>, <<>>)}
    ELSE LET a1 == IF a.refresh_token = None
                   THEN [a EXCEPT !.refresh_token = _open_auth_file(a)] ELSE a
         IN {[o EXCEPT !.reqs = <<c>> \o o.reqs]
             : o \in IF a1.refresh_token = None THEN _login_using_details(a1)
                     ELSE _refresh_token(a1)}
    : c \in CheckResponses}

\* a slip: the session is checked even when the caller asked for no check
login_always_checks(check_login, a) ==
  LET outs ==
        IF a.first_login
        THEN LET a1 == [a EXCEPT !.refresh_token = _open_auth_file(a)]
             IN IF a1.refresh_token = None THEN _login_using_details(a1)
                ELSE _refresh_token(a1)
        ELSE _check_login(a)
  IN {IF o.ok
      THEN [o EXCEPT !.a.successful_login = TRUE, !.a.first_login = FALSE]
      ELSE IF o.exc = "none" THEN [o EXCEPT !.exc = "Couldn't login."] ELSE o
      : o \in outs}

login(check_login, a) ==
  IF ~check_login /\ a.successful_login
  THEN {Outcome(TRUE, "none", a, <<>>, <<>>)}
  ELSE LET outs ==
             IF a.first_login
             THEN LET a1 == [a EXCEPT !.refresh_token = _open_auth_file(a)]
                  IN IF a1.refresh_token = None THEN _login_using_details(a1)
                     ELSE _refresh_token(a1)
             ELSE _check_login(a)
       IN {IF o.ok
           THEN [o EXCEPT !.a.successful_login = TRUE, !.a.first_login = FALSE]
           ELSE IF o.exc = "none" THEN [o EXCEPT !.exc = "Couldn't login."] ELSE o
           : o \in outs}

SetAuth(a) ==
  /\ first_login' = a.first_login
  /\ successful_login' = a.successful_login
  /\ refresh_token' = a.refresh_token
  /\ token_file' = a.token_file
  /\ headers' = a.headers

\* -------------------------------------------------------------------- Init
\* main() before its loop, the uploads folder holding one of queues
MainStarts(queues) ==
  /\ images_upload_session \in 1..MaxWindow
  /\ has_credentials \in BOOLEAN
  /\ zips_to_upload \in queues
  /\ index = 0
  /\ failed_uploads = <<>>
  /\ uploader_bound = FALSE
  /\ pc = "loop"
  /\ exception = "none"
  /\ reported = <<>>
  /\ info_list = <<>>
  /\ valid_images_to_upload = <<>>
  /\ images_to_upload = {}
  /\ images_to_upload_names = <<>>
  /\ images_to_upload_ids = <<>>
  /\ upload_session_id = None
  /\ start = 0
  /\ stop = 0
  /\ values = NoValues
  /\ image_batch = {}
  /\ retry = 0
  /\ failed_image_upload = FALSE
  /\ windows = <<>>
  /\ first_login = TRUE
  /\ successful_login = FALSE
  /\ refresh_token = None
  /\ token_file \in {None, 0}
  /\ headers = None
  /\ reqs = <<>>
  /\ sleeps = <<>>
  /\ opened = {}
  /\ committed = {}
  /\ deletes = {}
  /\ moved = {}

\* the uploaded area is empty
NothingUploaded == uploaded_files = {}

Init ==
  /\ MainStarts({[i \in 1..n |-> i] : n \in 1..MaxZips})
  /\ NoName
  /\ NothingUploaded

batchvars == <<info_list, valid_images_to_upload, images_to_upload,
               images_to_upload_names, images_to_upload_ids, start, stop,
               values, image_batch, failed_image_upload, windows>>
logvars == <<opened, committed, deletes, moved, uploaded_files>>
runvars == <<zips_to_upload, index, uploader_bound, reported>>

\* the fields of a ChapterUploaderProcess as __init__ sets them; after
\* "del uploader_process" the object is gone and the fields read the same
NewUploader ==
  /\ info_list' = <<>>
  /\ valid_images_to_upload' = <<>>
  /\ images_to_upload' = {}
  /\ images_to_upload_names' = <<>>
  /\ images_to_upload_ids' = <<>>
  /\ upload_session_id' = None
  /\ start' = 0
  /\ stop' = 0
  /\ values' = NoValues
  /\ image_batch' = {}
  /\ retry' = 0
  /\ failed_image_upload' = FALSE
  /\ windows' = <<>>

\* an exception nobody catches leaves main()
Raise(exc) == pc' = "crashed" /\ exception' = exc

\* ------------------------------------------------------------------- main
\* the for statement and the construction of ChapterUploaderProcess
BeginJob ==
  /\ pc = "loop"
  /\ IF index < Len(zips_to_upload)
     THEN /\ index' = index + 1
          /\ uploader_bound' = TRUE
          /\ pc' = "start_chapter_upload"
          /\ NewUploader
     ELSE /\ pc' = "report"
          /\ UNCHANGED <<index, uploader_bound, jobvars>>
  /\ reqs' = <<>>
  /\ sleeps' = <<>>
  /\ UNCHANGED <<cfgvars, zips_to_upload, failed_uploads, exception, reported,
                 authvars, logvars>>

\* ---------------------------------------------------- start_chapter_upload
\* the shapes an archive name can have for FileProcesser
ZipNames == {"no match", "unknown title", "well formed"}
_match_file_name(name) == name # "no match"
_get_manga_series(name) == IF name = "unknown title" THEN None ELSE 1
\* a slip: a title without series id is let through
process_zip_name_any_title(name) == _match_file_name(name)

process_zip_name(name) ==
  IF ~_match_file_name(name) THEN FALSE
  ELSE _get_manga_series(name) # None

\* the first lines of start_chapter_upload for an archive named name
ProcessZipNameFor(name) ==
  /\ pc = "start_chapter_upload"
  /\ pc' = IF process_zip_name(name) THEN "login" ELSE "after_job"
  /\ reqs' = <<>>
  /\ sleeps' = <<>>
  /\ UNCHANGED <<cfgvars, runvars, failed_uploads, exception, jobvars, authvars,
                 logvars>>

ProcessZipName == \E name \in ZipNames : ProcessZipNameFor(name)

\* self.md_auth_object.login(False)
LoginForJob ==
  /\ pc = "login"
  /\ \E o \in login(FALSE, Auth) :
       /\ SetAuth(o.a)
       /\ reqs' = o.reqs
       /\ sleeps' = o.sleeps
       /\ IF o.exc # "none" THEN Raise(o.exc)
          ELSE pc' = "delete_existing" /\ UNCHANGED exception
  /\ retry' = 0
  /\ UNCHANGED <<cfgvars, runvars, failed_uploads, batchvars, upload_session_id,
                 logvars>>

\* a slip: the DELETE names no draft
delete_request_without_id(session_id) == <<Req("delete", None, None)>>

\* remove_upload_session: the DELETE request and the sleep behind it
delete_request(session_id) == <<Req("delete", session_id, None)>>

\* a slip: one pass more than upload_retry, as range(upload_retry + 1) gives
last_attempt_one_more(retries) == retries + 1 > number_upload_retry

\* for retries in range(self.number_upload_retry): this pass is the last
last_attempt(retries) == retries + 1 >= number_upload_retry

\* a slip: every answer that is no 200 and no 401 read as "no draft exists"
no_existing_session_on_error(status) == status \notin {200, 401}

\* the answer to GET /upload that says no draft exists
no_existing_session(status) == status = 404

\* one pass of the loop of _delete_exising_upload_session (first draft-open
\* attempt only)
DeleteExistingUploadSession ==
  /\ pc = "delete_existing"
  /\ \E r \in Responses \cup {Resp(404, FALSE)} :
       LET get == <<Req("upload_get", None, r.status)>>
           last == last_attempt(retry)
           again == IF last THEN Raise("Couldn't delete existing upload session.")
                    ELSE pc' = "delete_existing" /\ UNCHANGED exception
       IN IF r.status = 200 /\ r.json
          THEN /\ reqs' = get \o delete_request(StaleDraftId)
               /\ sleeps' = <<ratelimit_time>>
               /\ deletes' = deletes \cup {StaleDraftId}
               /\ pc' = "create_session"
               /\ retry' = 0
               /\ UNCHANGED <<exception, authvars>>
          ELSE IF no_existing_session(r.status)
          THEN /\ reqs' = get
               /\ sleeps' = <<>>
               /\ pc' = "create_session"
               /\ retry' = 0
               /\ UNCHANGED <<exception, authvars, deletes>>
          ELSE IF r.status = 401
          THEN \E o \in login(TRUE, Auth) :
                 /\ SetAuth(o.a)
                 /\ reqs' = get \o o.reqs
                 /\ IF o.exc # "none"
                    THEN Raise(o.exc) /\ sleeps' = o.sleeps /\ UNCHANGED retry
                    ELSE /\ again
                         /\ sleeps' = o.sleeps \o <<ratelimit_time>>
                         /\ retry' = retry + 1
                 /\ UNCHANGED deletes
          ELSE /\ reqs' = get
               /\ sleeps' = (IF r.status = 200 THEN <<>> ELSE print_error(r.status))
                              \o <<ratelimit_time>>
               /\ again
               /\ retry' = retry + 1
               /\ UNCHANGED <<authvars, deletes>>
  /\ UNCHANGED <<cfgvars, runvars, failed_uploads, batchvars, upload_session_id,
                 opened, committed, moved, uploaded_files>>

\* one pass of the loop of _create_upload_session, and on a draft id the
\* assignments of start_chapter_upload up to the batch loop
CreateUploadSession ==
  /\ pc = "create_session"
  /\ \E r \in Responses :
       LET post == <<Req("begin", None, r.status)>>
           last == last_attempt(retry)
           again == /\ retry' = retry + 1
                    /\ pc' = IF last THEN "failed_session_sleep" ELSE "create_session"
                    /\ failed_uploads' = IF last THEN Append(failed_uploads, index)
                                         ELSE failed_uploads
                    /\ UNCHANGED <<upload_session_id, start, stop, opened>>
       IN IF r.status = 200 /\ r.json
          THEN /\ reqs' = post
               /\ sleeps' = <<>>
               /\ upload_session_id' = DraftId(index)
               /\ opened' = opened \cup {index}
               /\ start' = 0
               /\ stop' = images_upload_session
               /\ pc' = "get_images"
               /\ UNCHANGED <<retry, failed_uploads, exception, authvars>>
          ELSE IF r.status = 401
          THEN \E o \in login(TRUE, Auth) :
                 /\ SetAuth(o.a)
                 /\ reqs' = post \o o.reqs
                 /\ IF o.exc # "none"
                    THEN /\ Raise(o.exc)
                         /\ sleeps' = o.sleeps
                         /\ UNCHANGED <<retry, failed_uploads, upload_session_id,
                                        start, stop, opened>>
                    ELSE /\ again
                         /\ sleeps' = o.sleeps \o <<ratelimit_time>>
                         /\ UNCHANGED exception
          ELSE /\ reqs' = post
               /\ sleeps' = (IF r.status = 200 THEN <<>> ELSE print_error(r.status))
                              \o <<ratelimit_time>>
               /\ again
               /\ UNCHANGED <<exception, authvars>>
  /\ UNCHANGED <<cfgvars, runvars, info_list, valid_images_to_upload,
                 images_to_upload, images_to_upload_names, images_to_upload_ids,
                 values, image_batch, failed_image_upload, windows, committed,
                 deletes, moved, uploaded_files>>

\* time.sleep and return after no draft could be opened
FailedSessionSleep ==
  /\ pc = "failed_session_sleep"
  /\ pc' = "after_job"
  /\ reqs' = <<>>
  /\ sleeps' = <<ratelimit_time>>
  /\ UNCHANGED <<cfgvars, runvars, failed_uploads, exception, jobvars, authvars,
                 logvars>>

\* one call of _get_images_to_upload from the batch loop; the archive is one
\* of on_disk when the job opens it first, and the same one from then on
GetImagesToUpload(on_disk) ==
  /\ pc = "get_images"
  /\ \E archive \in (IF valid_images_to_upload = <<>> THEN on_disk ELSE {info_list}) :
       LET valid == FrozenIndex(archive, valid_images_to_upload)
       IN /\ info_list' = archive
          /\ valid_images_to_upload' = valid
          /\ windows' = Append(windows,
                          [start |-> start, stop |-> ClippedStop(valid, stop),
                           keys |-> files(archive, valid, start, stop)])
          /\ IF images_to_read(archive, valid, start, stop) = <<>>
             THEN /\ Raise("IndexError")     \* images_to_read[-1] of an empty list
                  /\ UNCHANGED <<images_to_upload, images_to_upload_names,
                                 image_batch, values>>
             ELSE /\ images_to_upload' = files(archive, valid, start, stop)
                  /\ images_to_upload_names' =
                       names_update(images_to_upload_names, archive, valid,
                                    start, stop)
                  /\ image_batch' = files(archive, valid, start, stop)
                  /\ values' = next_window(archive, valid, start, stop,
                                           images_upload_session)
                  /\ pc' = "upload_images"
                  /\ UNCHANGED exception
  /\ retry' = 0
  /\ failed_image_upload' = FALSE
  /\ reqs' = <<>>
  /\ sleeps' = <<>>
  /\ UNCHANGED <<cfgvars, runvars, failed_uploads, images_to_upload_ids,
                 upload_session_id, start, stop, authvars, logvars>>

\* the bodies a 200 answer to a batch may carry: the acknowledged keys, in
\* the order the server lists them
AckOrders(batch) == {q \in InjSeqs(batch, Cardinality(batch)) : NoRepeat(q)}

\* images_to_upload_ids.insert(int(originalFileName), id) for each entry
RECURSIVE InsertAcknowledged(_, _)
InsertAcknowledged(ids, acks) ==
  IF acks = <<>> THEN ids
  ELSE InsertAcknowledged(ListInsert(ids, Head(acks), RemoteId(Head(acks))),
                          Tail(acks))

\* a slip: as many keys dropped from the front as were acknowledged
Reconcile_by_position(batch, acks) ==
  {k \in batch : Cardinality({m \in batch : m < k}) >= Len(acks)}

\* the batch of the next attempt: the keys the answer did not acknowledge
Reconcile(batch, acks) == {k \in batch : k \notin Range(acks)}

UploadReq(batch, acks, status) ==
  Req("upload", [sent |-> batch, acked |-> acks], status)

\* a slip: a failed window does not end the batch loop
BatchLoopBreaks_ignores_failure(failed) ==
  \/ stop \in {Len(valid_images_to_upload), -1}
  \/ values = NoValues

\* the test that ends the batch loop of start_chapter_upload
BatchLoopBreaks(failed) ==
  \/ stop \in {Len(valid_images_to_upload), -1}
  \/ failed
  \/ values = NoValues

\* one pass of the loop of _upload_images and, when the loop is left, the
\* rest of the batch-loop body of start_chapter_upload
UploadImages ==
  /\ pc = "upload_images"
  /\ \E r \in Responses :
       LET last == last_attempt(retry)
           \* _upload_images returns failed; the batch loop tests its break
           return(failed) ==
             /\ failed_image_upload' = failed
             /\ retry' = 0
             /\ IF BatchLoopBreaks(failed)
                THEN /\ pc' = IF failed THEN "remove_failed_upload" ELSE "commit"
                     /\ UNCHANGED <<start, stop>>
                ELSE /\ start' = values[1]
                     /\ stop' = values[2]
                     /\ pc' = "get_images"
           \* continue: the next pass, or the end of the for loop
           again ==
             IF last THEN return(TRUE)
             ELSE /\ failed_image_upload' = TRUE
                  /\ retry' = retry + 1
                  /\ pc' = "upload_images"
                  /\ UNCHANGED <<start, stop>>
       IN IF r.status # 200
          THEN /\ reqs' = <<UploadReq(image_batch, <<>>, r.status)>>
               /\ sleeps' = print_error(r.status)
               /\ again
               /\ UNCHANGED <<image_batch, images_to_upload_ids, exception>>
          ELSE IF ~r.json
          THEN /\ reqs' = <<UploadReq(image_batch, <<>>, 200)>>
               /\ sleeps' = <<>>
               /\ Raise("TypeError")         \* convert_json returned None
               /\ UNCHANGED <<image_batch, images_to_upload_ids, retry, start,
                              stop, failed_image_upload>>
          ELSE \E acks \in AckOrders(image_batch) :
                 /\ reqs' = <<UploadReq(image_batch, acks, 200)>>
                 /\ sleeps' = <<>>
                 /\ images_to_upload_ids' =
                      InsertAcknowledged(images_to_upload_ids, acks)
                 /\ IF Len(acks) = Cardinality(image_batch)
                    THEN return(FALSE) /\ UNCHANGED image_batch
                    ELSE again /\ image_batch' = Reconcile(image_batch, acks)
                 /\ UNCHANGED exception
  /\ UNCHANGED <<cfgvars, runvars, failed_uploads, info_list,
                 valid_images_to_upload, images_to_upload,
                 images_to_upload_names, values, windows, upload_session_id,
                 authvars, logvars>>

\* remove_upload_session() after a failed window
RemoveFailedUpload ==
  /\ pc = "remove_failed_upload"
  /\ reqs' = delete_request(upload_session_id)
  /\ sleeps' = <<ratelimit_time>>
  /\ deletes' = deletes \cup {upload_session_id}
  /\ pc' = "record_failed_upload"
  /\ UNCHANGED <<cfgvars, runvars, failed_uploads, exception, jobvars, authvars,
                 opened, committed, moved, uploaded_files>>

\* failed_uploads.append and return after a failed window
RecordFailedUpload ==
  /\ pc = "record_failed_upload"
  /\ failed_uploads' = Append(failed_uploads, index)
  /\ pc' = "after_job"
  /\ reqs' = <<>>
  /\ sleeps' = <<>>
  /\ UNCHANGED <<cfgvars, runvars, exception, jobvars, authvars, logvars>>

\* An archive name in the uploaded area: the base name of an archive of the
\* queue, bare or followed by {vN}
NoVersion == 0
zip_path_str(zip_name) == [base |-> zip_name, version |-> NoVersion]
versioned(zip_name, version) == [base |-> zip_name, version |-> version]

\* a slip: the name with {v2} is taken without a look at the listing
new_uploaded_zip_path_checks_once(listdir, zip_name, path, version) ==
  IF path \in listdir THEN versioned(zip_name, version + 1) ELSE path

\* the while loop of _commit_chapter: the first name not in the listing,
\* the bare name first, then {v2}, {v3}, ...
RECURSIVE new_uploaded_zip_path(_, _, _, _)
new_uploaded_zip_path(listdir, zip_name, path, version) ==
  IF path \in listdir
  THEN new_uploaded_zip_path(listdir, zip_name, versioned(zip_name, version + 1),
                             version + 1)
  ELSE path

\* a slip: the commit counts as done only when the body of its answer can be
\* read
succesful_upload_when_readable(r) == r.status = 200 /\ r.json

\* chapter_commit_response.status_code == 200
succesful_upload(r) == r.status = 200

\* one pass of the loop of _commit_chapter
CommitChapter ==
  /\ pc = "commit"
  /\ \E r \in Responses :
       LET post == <<Req("commit", images_to_upload_ids, r.status)>>
           last == last_attempt(retry)
           \* leaving the loop without success prints the last error once more
           again == /\ retry' = retry + 1
                    /\ pc' = IF last THEN "remove_failed_commit" ELSE "commit"
           tail == <<ratelimit_time>> \o (IF last THEN print_error(r.status) ELSE <<>>)
       IN IF succesful_upload(r)
          THEN /\ reqs' = post
               /\ sleeps' = <<>>
               /\ committed' = committed \cup {index}
               /\ moved' = moved \cup {index}
               /\ uploaded_files' = uploaded_files \cup
                    {new_uploaded_zip_path(uploaded_files, zips_to_upload[index],
                                           zip_path_str(zips_to_upload[index]), 1)}
               /\ pc' = "after_job"
               /\ UNCHANGED <<retry, exception, authvars>>
          ELSE IF r.status = 401
          THEN \E o \in login(TRUE, Auth) :
                 /\ SetAuth(o.a)
                 /\ reqs' = post \o o.reqs
                 /\ IF o.exc # "none"
                    THEN Raise(o.exc) /\ sleeps' = o.sleeps /\ UNCHANGED retry
                    ELSE again /\ sleeps' = o.sleeps \o tail /\ UNCHANGED exception
                 /\ UNCHANGED <<committed, moved, uploaded_files>>
          ELSE /\ reqs' = post
               /\ sleeps' = print_error(r.status) \o tail
               /\ again
               /\ UNCHANGED <<exception, authvars, committed, moved, uploaded_files>>
  /\ UNCHANGED <<cfgvars, runvars, failed_uploads, batchvars, upload_session_id,
                 opened, deletes>>

\* remove_upload_session() after the commit attempts ran out
RemoveFailedCommit ==
  /\ pc = "remove_failed_commit"
  /\ reqs' = delete_request(upload_session_id)
  /\ sleeps' = <<ratelimit_time>>
  /\ deletes' = deletes \cup {upload_session_id}
  /\ pc' = "record_failed_commit"
  /\ UNCHANGED <<cfgvars, runvars, failed_uploads, exception, jobvars, authvars,
                 opened, committed, moved, uploaded_files>>

\* failed_uploads.append and return after the commit attempts ran out
RecordFailedCommit ==
  /\ pc = "record_failed_commit"
  /\ failed_uploads' = Append(failed_uploads, index)
  /\ pc' = "after_job"
  /\ reqs' = <<>>
  /\ sleeps' = <<>>
  /\ UNCHANGED <<cfgvars, runvars, exception, jobvars, authvars, logvars>>

\* ------------------------------------------------------------ main, again
reauth_every == 5

\* a slip: the jobs counted from 0, as enumerate does by default
ReauthDue_zero_based(i) == (i - 1) % reauth_every = 0

\* index % 5 == 0, index counting the jobs from 1
ReauthDue(i) == i % reauth_every = 0

\* the rest of the loop body once start_chapter_upload has returned
AfterJob ==
  /\ pc = "after_job"
  /\ IF ReauthDue(index)
     THEN \E o \in login(TRUE, [Auth EXCEPT !.headers = None]) :
            /\ SetAuth(o.a)
            /\ reqs' = o.reqs
            /\ IF o.exc # "none"
               THEN /\ Raise(o.exc)
                    /\ sleeps' = o.sleeps
                    /\ UNCHANGED <<uploader_bound, jobvars>>
               ELSE /\ pc' = "loop"
                    /\ uploader_bound' = FALSE
                    /\ NewUploader
                    /\ sleeps' = o.sleeps \o <<ratelimit_time * 2>>
                    /\ UNCHANGED exception
     ELSE /\ pc' = "loop"
          /\ uploader_bound' = FALSE
          /\ NewUploader
          /\ reqs' = <<>>
          /\ sleeps' = <<ratelimit_time * 2>>
          /\ UNCHANGED <<exception, authvars>>
  /\ UNCHANGED <<cfgvars, zips_to_upload, index, reported, failed_uploads,
                 logvars>>

\* the places of the try block a KeyboardInterrupt can arrive at
InTry == {"loop", "start_chapter_upload", "login", "delete_existing",
          "create_session", "failed_session_sleep", "get_images",
          "upload_images", "remove_failed_upload", "record_failed_upload",
          "commit", "remove_failed_commit", "record_failed_commit", "after_job"}

\* except KeyboardInterrupt
KeyboardInterrupt ==
  /\ pc \in InTry
  /\ IF uploader_bound
     THEN /\ reqs' = delete_request(upload_session_id)
          /\ sleeps' = <<ratelimit_time>>
          /\ deletes' = deletes \cup {upload_session_id}
          /\ uploader_bound' = FALSE
          /\ NewUploader
          /\ failed_uploads' = Append(failed_uploads, index)
     ELSE /\ reqs' = <<>>
          /\ sleeps' = <<>>
          /\ UNCHANGED <<deletes, uploader_bound, failed_uploads, jobvars>>
  /\ pc' = "report"
  /\ UNCHANGED <<cfgvars, zips_to_upload, index, reported, exception,
                 authvars, opened, committed, moved, uploaded_files>>

\* the report of the failed uploads that ends main()
Report ==
  /\ pc = "report"
  /\ reported' = failed_uploads
  /\ pc' = "done"
  /\ reqs' = <<>>
  /\ sleeps' = <<>>
  /\ UNCHANGED <<cfgvars, zips_to_upload, index, uploader_bound, failed_uploads,
                 exception, jobvars, authvars, logvars>>

Next ==
  \/ BeginJob
  \/ ProcessZipName
  \/ LoginForJob
  \/ DeleteExistingUploadSession
  \/ CreateUploadSession
  \/ FailedSessionSleep
  \/ GetImagesToUpload(Archives(MaxNames))
  \/ UploadImages
  \/ RemoveFailedUpload
  \/ RecordFailedUpload
  \/ CommitChapter
  \/ RemoveFailedCommit
  \/ RecordFailedCommit
  \/ AfterJob
  \/ KeyboardInterrupt
  \/ Report

Spec == Init /\ [][Next]_vars

\* ------------------------------------------------- the batch loop on its own
\* The first job of a run at the top of its batch loop: no credential record
\* was found, the account details logged in, no stale draft existed and the
\* first draft-open POST returned a draft id.  The archive may hold any of
\* the names 1..MaxEntries.
FirstDraftOpen(queue) ==
  /\ images_upload_session \in 1..MaxWindow
  /\ has_credentials = TRUE
  /\ zips_to_upload = queue
  /\ index = 1
  /\ failed_uploads = <<>>
  /\ uploader_bound = TRUE
  /\ pc = "get_images"
  /\ exception = "none"
  /\ reported = <<>>
  /\ info_list = <<>>
  /\ valid_images_to_upload = <<>>
  /\ images_to_upload = {}
  /\ images_to_upload_names = <<>>
  /\ images_to_upload_ids = <<>>
  /\ upload_session_id = DraftId(1)
  /\ start = 0
  /\ stop = images_upload_session
  /\ values = NoValues
  /\ image_batch = {}
  /\ retry = 0
  /\ failed_image_upload = FALSE
  /\ windows = <<>>
  /\ first_login = FALSE
  /\ successful_login = TRUE
  /\ refresh_token = None
  /\ token_file = 1
  /\ headers = 1
  /\ reqs = <<Req("begin", None, 200)>>
  /\ sleeps = <<>>
  /\ opened = {1}
  /\ committed = {}
  /\ deletes = {}
  /\ moved = {}

InitBatch == FirstDraftOpen(<<1>>) /\ NoName /\ NothingUploaded

NextBatch ==
  \/ GetImagesToUpload(Archives(MaxEntries))
  \/ UploadImages

SpecBatch == InitBatch /\ [][NextBatch]_vars

\* ================================================================= claims
\* a job is over: start_chapter_upload returned, or an exception or a
\* KeyboardInterrupt took control out of it
JobEnded(j) ==
  \/ j < index
  \/ j = index /\ pc \in {"after_job", "loop", "report", "done", "crashed"}

\* C1: every job whose draft was opened has, once it is over, a commit POST
\* answered 200 or a DELETE issued for its draft.
C1_DraftCommittedOrDeleted ==
  \A j \in opened : JobEnded(j) => (j \in committed \/ DraftId(j) \in deletes)

AcknowledgedKeys ==
  {k \in 0..Len(valid_images_to_upload) : RemoteId(k) \in Range(images_to_upload_ids)}

\* the last step was a POST of the current window
LastUpload == reqs # <<>> /\ reqs[1].ep = "upload"

\* C3: after a 200 answer that acknowledges M of the K pages posted, M < K,
\* the next attempt carries exactly the K - M keys not acknowledged, and no
\* attempt carries a key that was acknowledged before.
C3_RetrySubmitsUnacknowledged ==
  pc = "upload_images" =>
    /\ image_batch \cap AcknowledgedKeys = {}
    /\ (LastUpload /\ reqs[1].status = 200) =>
         /\ Len(reqs[1].arg.acked) < Cardinality(reqs[1].arg.sent)
         /\ image_batch = reqs[1].arg.sent \ Range(reqs[1].arg.acked)
         /\ Cardinality(image_batch) =
              Cardinality(reqs[1].arg.sent) - Len(reqs[1].arg.acked)

\* one page of three acknowledged, and not the first of them
C3_Witness ==
  /\ pc = "upload_images"
  /\ LastUpload
  /\ reqs[1].status = 200
  /\ reqs[1].arg.sent = {0, 1, 2}
  /\ reqs[1].arg.acked = <<1>>

\* C4: no job is in failed_uploads twice.
C4_FailureLogHoldsJobOnce == NoRepeat(failed_uploads)

\* the commit loop of the current job ran all its attempts without a 200
CommitAttemptsExhausted ==
  /\ upload_session_id # None
  /\ index \notin committed
  /\ \/ pc = "after_job" /\ ~failed_image_upload /\ retry = number_upload_retry
     \/ /\ pc = "crashed"
        /\ reqs # <<>>
        /\ reqs[1].ep = "commit"
        /\ retry + 1 = number_upload_retry

\* C5: once every commit attempt has failed, the draft was sent a DELETE,
\* the job is in failed_uploads and the archive has not moved.
C5_CommitExhaustedRollsBack ==
  CommitAttemptsExhausted =>
    /\ DraftId(index) \in deletes
    /\ index \in Range(failed_uploads)
    /\ index \notin moved

\* C6: a 429 answer to a batch POST is followed by one sleep of the extended
\* cooldown and nothing else, an answer other than 429 by no such sleep, and
\* the attempt after a 429 carries the keys the refused attempt carried.
C6_CooldownOncePer429 ==
  LastUpload =>
    /\ reqs[1].status = 429 => sleeps = <<ratelimit_time * 4>>
    /\ reqs[1].status # 429 => \A i \in 1..Len(sleeps) : sleeps[i] # ratelimit_time * 4
    /\ (reqs[1].status = 429 /\ pc = "upload_images") =>
         image_batch = reqs[1].arg.sent

\* a 429 on a window of several pages, with an attempt left
C6_Witness ==
  /\ LastUpload
  /\ reqs[1].status = 429
  /\ pc = "upload_images"
  /\ retry >= 1
  /\ Cardinality(image_batch) >= 2

\* C7: an exception leaves main() only when authentication is exhausted.
C7_OnlyAuthAbortsRun ==
  pc = "crashed" => exception \in {"Couldn't login.", "Login details missing."}

\* C8: at the end of a run every started job that was not committed is in
\* failed_uploads and in the final report.
C8_EveryFailureRecorded ==
  pc = "done" =>
    \A j \in 1..index :
      j \notin committed => (j \in Range(failed_uploads) /\ j \in Range(reported))

\* the image entries of the archive of the job
ImageEntries == {n \in Range(info_list) : IsImage(n)}

\* C9 (state part): the frozen index lists each image entry once, every key
\* handed out lies in 0..N-1 and names the entry at that position, the keys
\* handed out so far are those below the clipped stop, and after the last
\* window they are all of 0..N-1.
C9_IndexState ==
  valid_images_to_upload # <<>> =>
    LET N == Cardinality(ImageEntries)
        keys == DOMAIN images_to_upload_names
    IN /\ Len(valid_images_to_upload) = N
       /\ Range(valid_images_to_upload) = ImageEntries
       /\ keys \subseteq 0..(N - 1)
       /\ \A k \in keys : images_to_upload_names[k] = valid_images_to_upload[k + 1]
       /\ \A k \in keys : \A m \in 0..k : m \in keys
       /\ image_batch \subseteq keys
       /\ pc = "commit" => keys = 0..(N - 1)

\* C9 (step part): while the job's uploader lives, the frozen index once
\* computed is never computed again, and a key keeps the entry it was given.
C9_IndexStep ==
  (valid_images_to_upload # <<>> /\ uploader_bound') =>
    /\ valid_images_to_upload' = valid_images_to_upload
    /\ \A k \in DOMAIN images_to_upload_names :
         /\ k \in DOMAIN images_to_upload_names'
         /\ images_to_upload_names'[k] = images_to_upload_names[k]

\* C9: the pages of an archive with N image entries get the keys 0..N-1, no
\* gap and no duplicate, fixed on the first window and the same in every
\* later window and retry of the job.
C9_PageSetIndexing == [](C9_IndexState) /\ [][C9_IndexStep]_vars

\* a retry in a later window of an archive that is not in page order and
\* holds an entry that is no image
C9_Witness ==
  /\ pc = "upload_images"
  /\ Len(windows) >= 2
  /\ retry >= 1
  /\ \E n \in Range(info_list) : ~IsImage(n)
  /\ info_list_images_only(info_list) # valid_images_to_upload

\* C10: the windows read are contiguous from 0, each clipped to N, each
\* returning the keys of its range, in increasing order and disjoint; when
\* the batch loop is left for the commit every key 0..N-1 was returned.
C10_WindowSequencing ==
  LET N == Len(valid_images_to_upload)
      w == images_upload_session
  IN /\ \A i \in 1..Len(windows) :
          /\ windows[i].start = IF i = 1 THEN 0 ELSE windows[i - 1].stop
          /\ windows[i].stop = Min(windows[i].start + w, N)
          /\ windows[i].keys = windows[i].start..(windows[i].stop - 1)
          /\ i > 1 => windows[i - 1].start < windows[i].start
     /\ \A i, j \in 1..Len(windows) :
          i # j => windows[i].keys \cap windows[j].keys = {}
     /\ pc = "commit" =>
          UNION {windows[i].keys : i \in 1..Len(windows)} = 0..(N - 1)

\* the batch loop left for the commit after several windows, the last one
\* clipped
C10_Witness ==
  /\ pc = "commit"
  /\ Len(windows) >= 2
  /\ windows[Len(windows)].stop < windows[Len(windows)].start + images_upload_session

\* a window of the current job used up its attempts with pages unacknowledged:
\* _upload_images returned True, or its last attempt raised
HardWindowFailure ==
  \/ /\ failed_image_upload
     /\ pc \in {"remove_failed_upload", "record_failed_upload", "after_job"}
  \/ /\ pc = "crashed"
     /\ exception = "TypeError"
     /\ retry + 1 = number_upload_retry

\* C11: after a hard window failure the job sends no page POST and no commit
\* POST, and when it is over the draft was sent a DELETE and the job is in
\* failed_uploads.
C11_HardWindowFailureRollsBack ==
  HardWindowFailure =>
    /\ pc \in {"record_failed_upload", "after_job"} =>
         \A i \in 1..Len(reqs) : reqs[i].ep \notin {"upload", "commit"}
    /\ JobEnded(index) =>
         /\ DraftId(index) \in deletes
         /\ index \in Range(failed_uploads)

\* ------------------------------------------- one job from its open draft on
\* the batch loop, the commit and both rollbacks of the first job of a run
NextJob ==
  \/ GetImagesToUpload(Archives(MaxEntries))
  \/ UploadImages
  \/ RemoveFailedUpload
  \/ RecordFailedUpload
  \/ CommitChapter
  \/ RemoveFailedCommit
  \/ RecordFailedCommit

SpecJob == InitBatch /\ [][NextJob]_vars

\* C12: the batch loop moves past a window only when each of its keys was
\* acknowledged, and a commit POST is sent only when every key 0..N-1 was
\* acknowledged, carrying exactly N remote ids.
C12_CommitOnlyWhenAllAcknowledged ==
  LET N == Len(valid_images_to_upload)
  IN /\ (pc = "get_images" \/ pc = "commit") =>
          \A i \in 1..Len(windows) : windows[i].keys \subseteq AcknowledgedKeys
     /\ \A i \in 1..Len(reqs) :
          reqs[i].ep = "commit" =>
            /\ AcknowledgedKeys = 0..(N - 1)
            /\ Len(reqs[i].arg) = N
            /\ Range(reqs[i].arg) = {RemoteId(k) : k \in 0..(N - 1)}

\* a commit POST for at least three pages read in several windows
C12_Witness ==
  /\ reqs # <<>>
  /\ reqs[1].ep = "commit"
  /\ Len(windows) >= 2
  /\ Len(valid_images_to_upload) >= 3

\* the requests of a job's networked steps, and those of AuthMD
JobEndpoints == {"upload_get", "begin", "upload", "commit"}
AuthEndpoints == {"auth/check", "auth/refresh", "auth/login"}

\* C13: a 401 or 403 answer to a request of a job step is followed, within
\* the same pass of the step's loop, by a request of the authentication
\* session.
C13_AuthErrorReauthenticates ==
  \A i \in 1..Len(reqs) :
    (reqs[i].ep \in JobEndpoints /\ reqs[i].status \in {401, 403}) =>
      /\ i < Len(reqs)
      /\ reqs[i + 1].ep \in AuthEndpoints

\* C14: "Couldn't login." ends the run only after the credential login was
\* tried and refused; a refresh answered with a status other than 200, 401
\* and 403 does not end the run.
C14_FatalOnlyWhenBothPathsExhausted ==
  (pc = "crashed" /\ exception = "Couldn't login.") =>
    /\ \E i \in 1..Len(reqs) : reqs[i].ep = "auth/login"
    /\ \A i \in 1..Len(reqs) :
         reqs[i].ep = "auth/refresh" => reqs[i].status \in {200, 401, 403}

\* ------------------------------------------------------ AuthMD on its own
\* The session as main() builds it, and the calls of login its callers make:
\* login(False) when a job starts, login() after a 401 and after every fifth
\* job.  The callers are left out; a call may follow any other.
InitAuth ==
  /\ Init
  /\ images_upload_session = 1
  /\ zips_to_upload = <<1>>

LoginCall(check_login) ==
  /\ pc = "loop"
  /\ \E o \in login(check_login, Auth) :
       /\ SetAuth(o.a)
       /\ reqs' = o.reqs
       /\ sleeps' = o.sleeps
       /\ IF o.exc # "none" THEN Raise(o.exc) ELSE UNCHANGED <<pc, exception>>
  /\ UNCHANGED <<cfgvars, runvars, failed_uploads, jobvars, logvars>>

NextAuth ==
  \/ LoginCall(FALSE)
  \/ LoginCall(TRUE)

SpecAuth == InitAuth /\ [][NextAuth]_vars

\* a login or refresh request of the step just taken was answered 200
TokenRequestAnswered200 ==
  \E i \in 1..Len(reqs') :
    reqs'[i].ep \in {"auth/login", "auth/refresh"} /\ reqs'[i].status = 200

\* C15 (step): the credential record changes only in a step with a login or
\* refresh answered 200, to a token pair it did not hold; and whenever a
\* token pair is installed as bearer header the record holds that pair.
C15_RecordStep ==
  /\ token_file' # token_file =>
       /\ TokenRequestAnswered200
       /\ token_file' \notin {None, token_file}
       /\ token_file' = headers'
  /\ (headers' # headers /\ headers' # None) => token_file' = headers'
  /\ ~TokenRequestAnswered200 => token_file' = token_file

\* C15: the persisted credential record is written by successful logins and
\* refreshes only, and then holds the returned token pair.
C15_RecordWrittenOnlyOnSuccess == [][C15_RecordStep]_vars

\* after a refresh and a later credential login the record holds the second
\* token pair handed out
C15_Witness ==
  /\ token_file = 2
  /\ headers = 2
  /\ \E i \in 1..Len(reqs) : reqs[i].ep = "auth/login" /\ reqs[i].status = 200

\* C16 (step): a call login(False) on a session that has logged in sends no
\* request, sleeps not, raises nothing and leaves the bearer header, the
\* refresh token in memory and the credential record as they were.
C16_NoOpStep ==
  (LoginCall(FALSE) /\ successful_login) =>
    /\ reqs' = <<>>
    /\ sleeps' = <<>>
    /\ UNCHANGED <<pc, exception>>
    /\ UNCHANGED authvars

\* C16: login(check_login=False) on an authenticated session is a no-op.
C16_LoginWithoutCheckIsNoOp == [][C16_NoOpStep]_vars

\* the session logged in with a token pair, and the last call sent nothing
C16_Witness ==
  /\ successful_login
  /\ headers # None
  /\ token_file = headers
  /\ reqs = <<>>
  /\ pc = "loop"

\* ------------------------------------- the first job and the loop of main()
\* a queue of MaxZips archives, the first job at the top of its batch loop;
\* the job runs to its end or is interrupted, and main() goes on from there
InitQueue ==
  /\ FirstDraftOpen([i \in 1..MaxZips |-> i])
  /\ NoName
  /\ NothingUploaded

NextQueue ==
  \/ GetImagesToUpload(Archives(MaxNames))
  \/ UploadImages
  \/ RemoveFailedUpload
  \/ RecordFailedUpload
  \/ CommitChapter
  \/ RemoveFailedCommit
  \/ RecordFailedCommit
  \/ AfterJob
  \/ BeginJob
  \/ KeyboardInterrupt
  \/ Report

SpecQueue == InitQueue /\ [][NextQueue]_vars

\* the places of a job at which its draft is open: the batch loop, the
\* commit loop and the rollbacks before their DELETE
DraftOpenPlaces == {"get_images", "upload_images", "commit",
                    "remove_failed_upload", "remove_failed_commit"}

\* C17 (step): a KeyboardInterrupt at a place where the draft is open sends a
\* DELETE for that draft and puts the job in failed_uploads; once main() has
\* left its loop no job is started.
C17_InterruptStep ==
  /\ (pc \in DraftOpenPlaces /\ pc' = "report") =>
       /\ upload_session_id = DraftId(index)
       /\ reqs' = <<Req("delete", DraftId(index), None)>>
       /\ DraftId(index) \in deletes'
       /\ failed_uploads' = Append(failed_uploads, index)
       /\ index' = index
  /\ pc \in {"report", "done"} =>
       /\ pc' \in {"report", "done"}
       /\ index' = index
       /\ opened' = opened

\* C17: an interrupt while a draft is open rolls the draft back, records the
\* job and ends the run without starting a later job.
C17_InterruptRollsBack == [][C17_InterruptStep]_vars

\* the run is over after an interrupt in the first of several jobs, whose
\* draft was open
C17_Witness ==
  /\ pc = "done"
  /\ index = 1
  /\ Len(zips_to_upload) >= 2
  /\ DraftId(1) \in deletes
  /\ 1 \notin committed
  /\ failed_uploads = <<1>>
  /\ reported = <<1>>

\* ------------------------------------------ a run long enough to re-login
\* a queue of MaxQueue archives; a job is skipped for its name, fails to open
\* a draft, or is left standing with its draft open
InitReauth ==
  /\ MainStarts({[i \in 1..MaxQueue |-> i]})
  /\ images_upload_session = 1
  /\ NoName
  /\ NothingUploaded

NextReauth ==
  \/ BeginJob
  \/ ProcessZipName
  \/ LoginForJob
  \/ DeleteExistingUploadSession
  \/ CreateUploadSession
  \/ FailedSessionSleep
  \/ AfterJob
  \/ Report

SpecReauth == InitReauth /\ [][NextReauth]_vars

\* C18 (step): when main() goes on after the job at queue position k, the
\* step calls login() exactly when k is a multiple of 5: it then opens with a
\* request of the authentication session (or finds no account details), and
\* with the check GET /auth/check once the session has logged in before.
\* The next job is started by a later step only.
C18_ReauthStep ==
  (pc = "after_job" /\ pc' \in {"loop", "crashed"}) =>
    /\ index' = index
    /\ (index % 5 = 0) <=>
         \/ reqs' # <<>> /\ reqs'[1].ep \in AuthEndpoints
         \/ exception' = "Login details missing."
    /\ (index % 5 = 0 /\ ~first_login) =>
         (reqs' # <<>> /\ reqs'[1].ep = "auth/check")
    /\ (index % 5 # 0) => (reqs' = <<>> /\ UNCHANGED authvars)
    /\ (index % 5 = 0 /\ pc' = "loop") => successful_login'

\* C18: the forced authentication check happens after job k if and only if
\* k is a multiple of 5, skipped and failed jobs counted, before job k + 1.
C18_PeriodicReauth == [][C18_ReauthStep]_vars

\* main() is back at its loop after the check behind the fifth job, some of
\* the five jobs having failed
C18_Witness ==
  /\ pc = "loop"
  /\ index = 5
  /\ reqs # <<>>
  /\ reqs[1].ep = "auth/check"
  /\ Len(failed_uploads) \in 1..4

\* start_chapter_upload returned at once: the job was skipped for its name
Skipped ==
  /\ pc = "after_job"
  /\ upload_session_id = None
  /\ index \notin Range(failed_uploads)

\* C19 (step): for a name that matches not, or whose title has no series id,
\* start_chapter_upload returns without a request, leaving the session, the
\* drafts and the archive as they were; main() then goes back to its loop
\* (through the login of every fifth job) and starts the next job.
C19_SkipStep ==
  /\ \A name \in ZipNames :
       ((~_match_file_name(name) \/ _get_manga_series(name) = None)
          /\ ProcessZipNameFor(name)) =>
         /\ pc' = "after_job"
         /\ reqs' = <<>>
         /\ UNCHANGED <<authvars, logvars, failed_uploads, index, exception>>
  /\ (Skipped /\ ~ReauthDue(index)) =>
       /\ pc' = "loop"
       /\ reqs' = <<>>
       /\ UNCHANGED <<authvars, logvars, failed_uploads, index, exception>>
  /\ (pc = "loop" /\ index < Len(zips_to_upload)) =>
       /\ pc' = "start_chapter_upload"
       /\ index' = index + 1

\* C19: a parse failure skips the job without a request or any other effect
\* and the run goes on with the next job.
C19_ParseFailureSkips == [][C19_SkipStep]_vars

\* the second job has started and nothing has happened yet but the skip of
\* the first
C19_Witness ==
  /\ index = 2
  /\ pc = "start_chapter_upload"
  /\ first_login
  /\ headers = None
  /\ failed_uploads = <<>>
  /\ opened = {}
  /\ moved = {}

\* --------------------------------------- FileProcesser._get_chapter_number
\* re.split(r"\.|\-", str): the pieces between the separators
RECURSIVE re_split(_)
re_split(str) ==
  IF \A i \in 1..Len(str) : str[i] \notin {".", "-"} THEN <<str>>
  ELSE LET i == CHOOSE k \in 1..Len(str) :
                  /\ str[k] \in {".", "-"}
                  /\ \A j \in 1..(k - 1) : str[j] \notin {".", "-"}
       IN <<SubSeq(str, 1, i - 1)>> \o re_split(SubSeq(str, i + 1, Len(str)))

\* str.lstrip(c)
RECURSIVE lstrip(_, _)
lstrip(str, c) ==
  IF str # <<>> /\ Head(str) = c THEN lstrip(Tail(str), c) ELSE str

\* sep.join(parts)
RECURSIVE join(_, _)
join(sep, parts) ==
  IF parts = <<>> THEN <<>>
  ELSE IF Len(parts) = 1 THEN parts[1]
  ELSE parts[1] \o <<sep>> \o join(sep, Tail(parts))

\* a slip: the leading zeros are stripped and nothing is put back
_get_chapter_number_bare_strip(prefix, chapter) ==
  IF ~prefix.some THEN NoneStr
  ELSE IF ~chapter.some THEN chapter
  ELSE LET parts == re_split(chapter.val)
       IN Some(join(".", [parts EXCEPT ![1] = lstrip(parts[1], "0")]))

_get_chapter_number(prefix, chapter) ==
  LET normalised ==
        IF chapter.some
        THEN LET parts == re_split(chapter.val)
                 first == IF Len(lstrip(parts[1], "0")) = 0 THEN <<"0">>
                          ELSE lstrip(parts[1], "0")
             IN Some(join(".", [parts EXCEPT ![1] = first]))
        ELSE chapter
  IN IF ~prefix.some THEN NoneStr ELSE normalised

\* what the pattern's group "chapter" can capture, \d+(?:\.\d)?, over a few
\* digits: an integer part of up to MaxDigits digits, then "." and a digit
Digits == {"0", "7"}
IntegerParts == UNION {[1..n -> Digits] : n \in 1..MaxDigits}
Numerals == IntegerParts \cup {q \o <<".", d>> : q \in IntegerParts, d \in {"0", "5"}}

\* a FileProcesser whose name matched, before process_zip_name reads the
\* chapter; nothing else of the run has happened
InitName ==
  /\ MainStarts({<<1>>})
  /\ images_upload_session = 1
  /\ has_credentials
  /\ token_file = None
  /\ zip_prefix \in {NoneStr, Some(<<"c", "h">>)}
  /\ zip_chapter \in {NoneStr} \cup {Some(q) : q \in Numerals}
  /\ zip_language = NoneStr
  /\ chapter_number = Unbound
  /\ language = Unbound
  /\ NothingUploaded

\* self.chapter_number = self._get_chapter_number()
GetChapterNumber ==
  /\ chapter_number = Unbound
  /\ chapter_number' = _get_chapter_number(zip_prefix, zip_chapter)
  /\ UNCHANGED <<images_upload_session, has_credentials, namevars, language,
                 mainvars, jobvars, authvars, envvars>>

NextName == GetChapterNumber

SpecName == InitName /\ [][NextName]_vars

\* the digits of a numeral ahead of its first "."
IntegerPart(str) ==
  IF \E i \in 1..Len(str) : str[i] = "."
  THEN SubSeq(str, 1, (CHOOSE i \in 1..Len(str) : str[i] = ".") - 1)
  ELSE str

\* C20: without the chapter prefix the chapter number is None, whatever
\* numeral was captured; with it, the result is the numeral with the leading
\* zeros of its integer part taken off, "0" standing for an integer part of
\* zeros only, and the part behind the "." unchanged.
C20_ChapterNumberNormalised ==
  chapter_number # Unbound =>
    /\ ~zip_prefix.some => chapter_number = NoneStr
    /\ (zip_prefix.some /\ ~zip_chapter.some) => chapter_number = NoneStr
    /\ (zip_prefix.some /\ zip_chapter.some) =>
         LET int == IntegerPart(zip_chapter.val)
             rest == SubSeq(zip_chapter.val, Len(int) + 1, Len(zip_chapter.val))
             zeros == CHOOSE k \in 0..Len(int) :
                        /\ \A i \in 1..k : int[i] = "0"
                        /\ k < Len(int) => int[k + 1] # "0"
         IN /\ chapter_number.some
            /\ chapter_number.val =
                 (IF zeros = Len(int) THEN <<"0">>
                  ELSE SubSeq(int, zeros + 1, Len(int))) \o rest

\* "0007" with the prefix gave "7"
C20_Witness ==
  /\ zip_prefix.some
  /\ zip_chapter = Some(<<"0", "0", "0", "7">>)
  /\ chapter_number = Some(<<"7">>)

\* ---------------------------------------------- FileProcesser._get_language
\* the table languages, a string being the sequence of its characters
Row(english, md, iso) == [english |-> english, md |-> md, iso |-> iso]

languages == <<
  Row(<<"E", "n", "g", "l", "i", "s", "h">>,
      <<"e", "n">>, <<"e", "n", "g">>),
  Row(<<"J", "a", "p", "a", "n", "e", "s", "e">>,
      <<"j", "a">>, <<"j", "p", "n">>),
  Row(<<"J", "a", "p", "a", "n", "e", "s", "e", " ", "(", "R", "o", "m", "a", "j", "i", ")">>,
      <<"j", "a", "-", "r", "o">>, <<"j", "p", "n">>),
  Row(<<"P", "o", "l", "i", "s", "h">>,
      <<"p", "l">>, <<"p", "o", "l">>),
  Row(<<"S", "e", "r", "b", "o", "-", "C", "r", "o", "a", "t", "i", "a", "n">>,
      <<"s", "h">>, <<"h", "r", "v">>),
  Row(<<"D", "u", "t", "c", "h">>,
      <<"n", "l">>, <<"d", "u", "t">>),
  Row(<<"I", "t", "a", "l", "i", "a", "n">>,
      <<"i", "t">>, <<"i", "t", "a">>),
  Row(<<"R", "u", "s", "s", "i", "a", "n">>,
      <<"r", "u">>, <<"r", "u", "s">>),
  Row(<<"G", "e", "r", "m", "a", "n">>,
      <<"d", "e">>, <<"g", "e", "r">>),
  Row(<<"H", "u", "n", "g", "a", "r", "i", "a", "n">>,
      <<"h", "u">>, <<"h", "u", "n">>),
  Row(<<"F", "r", "e", "n", "c", "h">>,
      <<"f", "r">>, <<"f", "r", "e">>),
  Row(<<"F", "i", "n", "n", "i", "s", "h">>,
      <<"f", "i">>, <<"f", "i", "n">>),
  Row(<<"V", "i", "e", "t", "n", "a", "m", "e", "s", "e">>,
      <<"v", "i">>, <<"v", "i", "e">>),
  Row(<<"G", "r", "e", "e", "k">>,
      <<"e", "l">>, <<"g", "r", "e">>),
  Row(<<"B", "u", "l", "g", "a", "r", "i", "a", "n">>,
      <<"b", "g">>, <<"b", "u", "l">>),
  Row(<<"S", "p", "a", "n", "i", "s", "h", " ", "(", "E", "s", ")">>,
      <<"e", "s">>, <<"s", "p", "a">>),
  Row(<<"P", "o", "r", "t", "u", "g", "u", "e", "s", "e", " ", "(", "B", "r", ")">>,
      <<"p", "t", "-", "b", "r">>, <<"p", "o", "r">>),
  Row(<<"P", "o", "r", "t", "u", "g", "u", "e", "s", "e", " ", "(", "P", "t", ")">>,
      <<"p", "t">>, <<"p", "o", "r">>),
  Row(<<"S", "w", "e", "d", "i", "s", "h">>,
      <<"s", "v">>, <<"s", "w", "e">>),
  Row(<<"A", "r", "a", "b", "i", "c">>,
      <<"a", "r">>, <<"a", "r", "a">>),
  Row(<<"D", "a", "n", "i", "s", "h">>,
      <<"d", "a">>, <<"d", "a", "n">>),
  Row(<<"C", "h", "i", "n", "e", "s", "e", " ", "(", "S", "i", "m", "p", ")">>,
      <<"z", "h">>, <<"c", "h", "i">>),
  Row(<<"C", "h", "i", "n", "e", "s", "e", " ", "(", "R", "o", "m", "a", "j", "i", ")">>,
      <<"z", "h", "-", "r", "o">>, <<"c", "h", "i">>),
  Row(<<"B", "e", "n", "g", "a", "l", "i">>,
      <<"b", "n">>, <<"b", "e", "n">>),
  Row(<<"R", "o", "m", "a", "n", "i", "a", "n">>,
      <<"r", "o">>, <<"r", "u", "m">>),
  Row(<<"C", "z", "e", "c", "h">>,
      <<"c", "s">>, <<"c", "z", "e">>),
  Row(<<"M", "o", "n", "g", "o", "l", "i", "a", "n">>,
      <<"m", "n">>, <<"m", "o", "n">>),
  Row(<<"T", "u", "r", "k", "i", "s", "h">>,
      <<"t", "r">>, <<"t", "u", "r">>),
  Row(<<"I", "n", "d", "o", "n", "e", "s", "i", "a", "n">>,
      <<"i", "d">>, <<"i", "n", "d">>),
  Row(<<"K", "o", "r", "e", "a", "n">>,
      <<"k", "o">>, <<"k", "o", "r">>),
  Row(<<"K", "o", "r", "e", "a", "n", " ", "(", "R", "o", "m", "a", "j", "i", ")">>,
      <<"k", "o", "-", "r", "o">>, <<"k", "o", "r">>),
  Row(<<"S", "p", "a", "n", "i", "s", "h", " ", "(", "L", "A", "T", "A", "M", ")">>,
      <<"e", "s", "-", "l", "a">>, <<"s", "p", "a">>),
  Row(<<"P", "e", "r", "s", "i", "a", "n">>,
      <<"f", "a">>, <<"p", "e", "r">>),
  Row(<<"M", "a", "l", "a", "y">>,
      <<"m", "s">>, <<"m", "a", "y">>),
  Row(<<"T", "h", "a", "i">>,
      <<"t", "h">>, <<"t", "h", "a">>),
  Row(<<"C", "a", "t", "a", "l", "a", "n">>,
      <<"c", "a">>, <<"c", "a", "t">>),
  Row(<<"F", "i", "l", "i", "p", "i", "n", "o">>,
      <<"t", "l">>, <<"f", "i", "l">>),
  Row(<<"C", "h", "i", "n", "e", "s", "e", " ", "(", "T", "r", "a", "d", ")">>,
      <<"z", "h", "-", "h", "k">>, <<"c", "h", "i">>),
  Row(<<"U", "k", "r", "a", "i", "n", "i", "a", "n">>,
      <<"u", "k">>, <<"u", "k", "r">>),
  Row(<<"B", "u", "r", "m", "e", "s", "e">>,
      <<"m", "y">>, <<"b", "u", "r">>),
  Row(<<"L", "i", "t", "h", "u", "a", "n", "i", "a", "n">>,
      <<"l", "t">>, <<"l", "i", "t">>),
  Row(<<"H", "e", "b", "r", "e", "w">>,
      <<"h", "e">>, <<"h", "e", "b">>),
  Row(<<"H", "i", "n", "d", "i">>,
      <<"h", "i">>, <<"h", "i", "n">>),
  Row(<<"N", "o", "r", "w", "e", "g", "i", "a", "n">>,
      <<"n", "o">>, <<"n", "o", "r">>),
  Row(<<"O", "t", "h", "e", "r">>,
      <<"N", "U", "L", "L">>, <<"N", "U", "L", "L">>)
>>

UpperCase == <<"A", "B", "C", "D", "E", "F", "G", "H", "I", "J", "K", "L", "M",
               "N", "O", "P", "Q", "R", "S", "T", "U", "V", "W", "X", "Y", "Z">>
LowerCase == <<"a", "b", "c", "d", "e", "f", "g", "h", "i", "j", "k", "l", "m",
               "n", "o", "p", "q", "r", "s", "t", "u", "v", "w", "x", "y", "z">>

\* str.lower()
lower(str) ==
  [i \in 1..Len(str) |->
     IF \E k \in 1..Len(UpperCase) : UpperCase[k] = str[i]
     THEN LowerCase[CHOOSE k \in 1..Len(UpperCase) : UpperCase[k] = str[i]]
     ELSE str[i]]

\* sub in str
contains(sub, str) ==
  \E i \in 0..(Len(str) - Len(sub)) : SubSeq(str, i + 1, i + Len(sub)) = sub

\* re.match(r"^[a-zA-Z\-]{2,5}$", str)
iso_639_2_form(str) ==
  /\ Len(str) \in 2..5
  /\ \A i \in 1..Len(str) : str[i] \in Range(UpperCase) \cup Range(LowerCase) \cup {"-"}

en == <<"e", "n">>
eng == <<"e", "n", "g">>
NULL == <<"N", "U", "L", "L">>

\* what _get_language does: it returns a code or raises
Returns(code) == [exc |-> "none", val |-> code]
Raises(exc) == [exc |-> exc, val |-> <<>>]

\* int(answer) for an answer of one character
DigitChars == <<"0", "1", "2", "3", "4", "5", "6", "7", "8", "9">>
IsInt(answer) == Len(answer) = 1 /\ answer[1] \in Range(DigitChars)
int(answer) == (CHOOSE k \in 1..Len(DigitChars) : DigitChars[k] = answer[1]) - 1

\* _get_language for the captured tag; answer is what input() returns when
\* the choice among several languages is asked
_get_language(tag, answer) ==
  IF ~tag.some THEN Returns(en)
  ELSE IF lower(tag.val) \in {eng, en} THEN Returns(en)
  ELSE IF Len(tag.val) < 2 THEN Returns(NULL)
  ELSE IF iso_639_2_form(tag.val) THEN Returns(tag.val)
  ELSE IF Len(tag.val) = 3
  THEN LET available_langs ==
             Filter(languages, {l \in Range(languages) : l.iso = tag.val})
       IN IF available_langs # <<>> THEN Returns(available_langs[1].md)
          ELSE Returns(NULL)
  ELSE LET languages_match ==
             Filter(languages,
                    {l \in Range(languages) :
                       contains(lower(tag.val), lower(l.english))})
       IN IF Len(languages_match) > 1
          THEN IF ~IsInt(answer) THEN Returns(NULL)
               ELSE IF int(answer) \notin 1..Len(languages_match) THEN Returns(NULL)
               ELSE Returns(languages_match[int(answer)].md)
          ELSE IF languages_match = <<>> THEN Raises("IndexError")
               ELSE Returns(languages_match[1].md)

\* the tags the pattern's group "language" can capture, a few of each kind:
\* none, the default language, one letter, short codes, legacy codes of three
\* letters, and names of languages
LanguageTags ==
  {NoneStr, Some(en), Some(<<"E", "N", "G">>), Some(<<"x">>),
   Some(<<"j", "a">>), Some(<<"p", "t", "-", "b", "r">>),
   Some(<<"j", "p", "n">>), Some(<<"x", "y", "z">>),
   Some(<<"T", "h", "a", "i">>), Some(<<"P", "o", "l", "i", "s", "h">>),
   Some(<<"J", "a", "p", "a", "n", "e", "s", "e">>),
   Some(<<"K", "l", "i", "n", "g", "o", "n">>)}

\* what the user may type when asked to choose
Answers == {<<"x">>, <<"0">>, <<"1">>, <<"2">>, <<"3">>}

\* a run over one archive whose name matches and whose title has a series id
InitLanguage ==
  /\ MainStarts({<<1>>})
  /\ images_upload_session = 1
  /\ has_credentials
  /\ token_file = None
  /\ zip_prefix = NoneStr
  /\ zip_chapter = NoneStr
  /\ zip_language \in LanguageTags
  /\ chapter_number = Unbound
  /\ language = Unbound
  /\ NothingUploaded

\* the first lines of start_chapter_upload for such an archive:
\* process_zip_name reads the language and the chapter number and returns True
ProcessZipNameLanguage ==
  /\ pc = "start_chapter_upload"
  /\ \E answer \in Answers :
       LET got == _get_language(zip_language, answer)
       IN IF got.exc # "none"
          THEN Raise(got.exc) /\ UNCHANGED <<language, chapter_number>>
          ELSE /\ language' = Some(got.val)
               /\ chapter_number' = _get_chapter_number(zip_prefix, zip_chapter)
               /\ pc' = "login"
               /\ UNCHANGED exception
  /\ reqs' = <<>>
  /\ sleeps' = <<>>
  /\ UNCHANGED <<images_upload_session, has_credentials, namevars, runvars,
                 failed_uploads, jobvars, authvars, logvars>>

NextLanguage ==
  \/ BeginJob
  \/ ProcessZipNameLanguage
  \/ LoginForJob
  \/ DeleteExistingUploadSession
  \/ CreateUploadSession
  \/ FailedSessionSleep
  \/ GetImagesToUpload(Archives(MaxNames))
  \/ UploadImages
  \/ CommitChapter

SpecLanguage == InitLanguage /\ [][NextLanguage]_vars

\* the short codes of the table, and the tag captured taken as a string
ShortCodes == {l.md : l \in Range(languages)}
Tag == zip_language.val

\* C21: a tag of three letters other than "eng" that is no short code of the
\* table resolves to the short code of a row whose legacy code is the tag, or
\* to "NULL" when there is no such row.
C21_LegacyCodeMapped ==
  (/\ language # Unbound
   /\ zip_language.some
   /\ Len(Tag) = 3
   /\ lower(Tag) # eng
   /\ Tag \notin ShortCodes) =>
    LET rows == {l \in Range(languages) : l.iso = Tag}
    IN /\ language.val \in ShortCodes
       /\ language.val \in (IF rows = {} THEN {NULL} ELSE {l.md : l \in rows})

\* the tag is the name of a language: longer than a legacy code and no short
\* code of the table
NameTag ==
  /\ zip_language.some
  /\ Len(Tag) > 3
  /\ Tag \notin ShortCodes

\* C22: a tag that is a name resolves to the row whose display name contains
\* it, letter case aside; with several such rows the result is one of them,
\* or "NULL" when the answer chooses none; with no such row the resolution
\* raises nothing.
C22_NameResolvedOrAsked ==
  NameTag =>
    LET rows == {l \in Range(languages) : contains(lower(Tag), lower(l.english))}
    IN /\ exception # "IndexError"
       /\ language # Unbound =>
            language.val \in {l.md : l \in rows} \cup
                             (IF Cardinality(rows) = 1 THEN {} ELSE {NULL})

\* C23: a job whose language resolved to "NULL" opens no draft and sends no
\* commit.
C23_UnresolvedLanguageSkips ==
  language = Some(NULL) =>
    /\ index \notin opened
    /\ \A i \in 1..Len(reqs) : reqs[i].ep \notin {"begin", "commit"}

\* C24: in an archive of N >= 1 pages the window that holds key N-1 is the
\* last window read: once it was uploaded the batch loop asks for no other
\* window, raises nothing and the job is at its commit.
C24_BatchLoopTerminates ==
  LET N == Len(valid_images_to_upload)
      last_read == {i \in 1..Len(windows) : (N - 1) \in windows[i].keys}
  IN N >= 1 =>
       /\ \A i \in last_read : i = Len(windows)
       /\ pc = "get_images" => last_read = {}
       /\ exception # "IndexError"

\* the two ways the stale-draft check lets the job go on: no draft exists,
\* or the draft found was sent a DELETE
NoStaleDraft == <<Req("upload_get", None, 404)>>
StaleDraftDeleted ==
  <<Req("upload_get", None, 200), Req("delete", StaleDraftId, None)>>

\* C25 (state): a job that stands before its first draft-open POST has just
\* seen GET /upload answer 404, or answer 200 followed by the DELETE of the
\* draft found.
C25_BeforeFirstOpen ==
  (pc = "create_session" /\ retry = 0) => reqs \in {NoStaleDraft, StaleDraftDeleted}

\* C25 (step): a draft-open POST is sent from the draft-open loop only, and
\* the loop is entered only from the stale-draft check, by a step whose GET
\* was answered 404 and which sent no DELETE, or whose GET was answered 200
\* and which sent the DELETE for the draft found.
C25_OpenStep ==
  /\ (\E i \in 1..Len(reqs') : reqs'[i].ep = "begin") => pc = "create_session"
  /\ (pc # "create_session" /\ pc' = "create_session") =>
       /\ pc = "delete_existing"
       /\ retry' = 0
       /\ \/ reqs' = NoStaleDraft /\ deletes' = deletes
          \/ reqs' = StaleDraftDeleted /\ deletes' = deletes \cup {StaleDraftId}

\* C25: the first draft-open POST of every job comes after the stale-draft
\* check found no draft or deleted the one it found.
C25_StaleDraftClearedFirst == [](C25_BeforeFirstOpen) /\ [][C25_OpenStep]_vars

\* the first job opened its draft after the stale draft was deleted
C25_Witness ==
  /\ index = 1
  /\ opened = {1}
  /\ deletes = {StaleDraftId}
  /\ reqs = <<Req("begin", None, 200)>>

\* the draft-open loop of the current job ran all its attempts and returned
\* without a draft id
DraftOpenExhausted ==
  /\ upload_session_id = None
  /\ retry = number_upload_retry
  /\ pc \in {"failed_session_sleep", "after_job"}

\* C26: after the draft-open attempts ran out the job is in failed_uploads,
\* it has sent no page POST, commit or DELETE, and no draft-open POST of its
\* last pass was answered 200: the server holds no draft of the job.
C26_DraftOpenExhaustion ==
  DraftOpenExhausted =>
    /\ index \in Range(failed_uploads)
    /\ index \notin opened
    /\ \A i \in 1..Len(reqs) :
         /\ reqs[i].ep \notin {"upload", "commit", "delete"}
         /\ ~(reqs[i].ep = "begin" /\ reqs[i].status = 200)

\* ------------------------------------------------- the relocation on its own
\* the names an earlier run may have left in the uploaded area: those of the
\* archive of the job, bare and with {v2} .. {vMaxVersions}, and the name of
\* another archive
LeftUploaded ==
  {zip_path_str(1), zip_path_str(2)} \cup {versioned(1, n) : n \in 2..MaxVersions}

\* the first job of a run at the top of its batch loop, its window wide
\* enough for the archive, the uploaded area holding any of these names
InitRelocate ==
  /\ FirstDraftOpen(<<1>>)
  /\ NoName
  /\ images_upload_session = MaxWindow
  /\ uploaded_files \in SUBSET LeftUploaded

NextRelocate ==
  \/ GetImagesToUpload(Archives(MaxNames))
  \/ UploadImages
  \/ CommitChapter

SpecRelocate == InitRelocate /\ [][NextRelocate]_vars

\* C27 (step): a step that moves the archive of the job adds one name to the
\* uploaded area and takes none away; the name is the bare name of the
\* archive when that was not listed, and otherwise the name with {vN} for the
\* least N >= 2 not listed.
C27_RelocationStep ==
  moved' # moved =>
    LET zip_name == zips_to_upload[index]
        added == uploaded_files' \ uploaded_files
    IN /\ uploaded_files \subseteq uploaded_files'
       /\ Cardinality(added) = 1
       /\ \A path \in added :
            /\ path.base = zip_name
            /\ IF [base |-> zip_name, version |-> NoVersion] \notin uploaded_files
               THEN path.version = NoVersion
               ELSE /\ path.version >= 2
                    /\ \A n \in 2..(path.version - 1) :
                         [base |-> zip_name, version |-> n] \in uploaded_files

\* C27: the archive is moved to a name that was free in the uploaded area,
\* the original name or the first free {vN}, and overwrites nothing.
C27_RelocationNaming == [][C27_RelocationStep]_vars

\* the archive went to {v3}: the bare name and {v2} were taken
C27_Witness ==
  /\ moved = {1}
  /\ {path.version : path \in {q \in uploaded_files : q.base = 1}} = {NoVersion, 2, 3}
  /\ reqs # <<>>
  /\ reqs[1].ep = "commit"

\* ------------------------------------------------- whole runs, two archives
\* main() from its start over two archives, the window one page wide or wide
\* enough for a whole archive; the account details are set and no credential
\* record exists
InitOutcomes ==
  /\ MainStarts({<<1, 2>>})
  /\ NoName
  /\ NothingUploaded
  /\ images_upload_session \in {1, MaxWindow}
  /\ has_credentials
  /\ token_file = None

SpecOutcomes == InitOutcomes /\ [][Next]_vars

\* the step just taken sent a commit POST that was answered 200
CommitAnswered200 ==
  \E i \in 1..Len(reqs') : reqs'[i].ep = "commit" /\ reqs'[i].status = 200

\* C28 (state): the archives moved are those of the jobs whose commit POST
\* was answered 200, each under one name of the uploaded area.
C28_MovedAreCommitted ==
  /\ moved = committed
  /\ Cardinality(uploaded_files) = Cardinality(moved)
  /\ \A path \in uploaded_files : \E j \in moved : path.base = zips_to_upload[j]

\* C28 (step): a step moves an archive exactly when it sent a commit POST
\* answered 200, and the archive moved is that of the current job and of no
\* other.
C28_MoveStep ==
  /\ CommitAnswered200 <=> moved' # moved
  /\ moved' # moved => (index \notin moved /\ moved' = moved \cup {index})
  /\ moved \subseteq moved'

\* C28: an archive is relocated if and only if a commit POST of its job was
\* answered 200.
C28_RelocatedIffCommitted == [](C28_MovedAreCommitted) /\ [][C28_MoveStep]_vars

\* a run ended with one archive moved and another left in place, its job in
\* failed_uploads
C28_Witness ==
  /\ pc = "done"
  /\ moved = {2}
  /\ failed_uploads = <<1>>
  /\ uploaded_files = {zip_path_str(2)}

\* the place of the loop that sends the requests of an endpoint, and the
\* place the loop is entered from
LoopPlace(ep) ==
  CASE ep = "upload_get" -> "delete_existing"
    [] ep = "begin" -> "create_session"
    [] ep = "upload" -> "upload_images"
    [] ep = "commit" -> "commit"
EnteredFrom(ep) ==
  CASE ep = "upload_get" -> "login"
    [] ep = "begin" -> "delete_existing"
    [] ep = "upload" -> "get_images"
    [] ep = "commit" -> "upload_images"

\* the requests to an endpoint among those of the step just taken
SentTo(ep) == Cardinality({i \in 1..Len(reqs') : reqs'[i].ep = ep})

\* C29 (state): a loop of a job stands before a pass only while fewer than
\* number_upload_retry passes were made.
C29_AttemptsLeft ==
  pc \in {LoopPlace(ep) : ep \in JobEndpoints} => retry \in 0..(number_upload_retry - 1)

\* C29 (step): a request of a job step is sent by a pass of its loop, one a
\* pass, and the pass is counted whatever the answer; a loop is entered with
\* no pass counted, from the step ahead of it, once a job and, for the page
\* POSTs, once a window.
C29_AttemptStep ==
  /\ \A ep \in JobEndpoints :
       /\ SentTo(ep) <= 1
       /\ SentTo(ep) = 1 =>
            /\ pc = LoopPlace(ep)
            /\ retry < number_upload_retry
            /\ pc' = LoopPlace(ep) => retry' = retry + 1
       /\ (pc = LoopPlace(ep) /\ pc' = LoopPlace(ep)) => SentTo(ep) = 1
       /\ (pc # LoopPlace(ep) /\ pc' = LoopPlace(ep)) =>
            /\ pc = EnteredFrom(ep)
            /\ retry' = 0
  /\ (pc # "login" /\ pc' = "login") => pc = "start_chapter_upload"
  /\ (pc # "start_chapter_upload" /\ pc' = "start_chapter_upload") =>
       index' = index + 1
  /\ (pc # "get_images" /\ pc' = "get_images") =>
       \/ pc = "create_session" /\ windows' = <<>>
       \/ pc = "upload_images" /\ windows' = windows /\ start' > start
  /\ (pc = "get_images" /\ pc' = "upload_images") => Len(windows') = Len(windows) + 1

\* C29: a job makes at most number_upload_retry stale-draft GETs, draft-open
\* POSTs, POSTs of a window and commit POSTs, a 401 answer counting as one.
C29_BoundedRetries == [](C29_AttemptsLeft) /\ [][C29_AttemptStep]_vars

\* the commit loop used up its attempts, the last one answered 401 and
\* followed by a login that succeeded
C29_Witness ==
  /\ pc = "remove_failed_commit"
  /\ retry = number_upload_retry
  /\ Len(reqs) >= 2
  /\ reqs[1].ep = "commit"
  /\ reqs[1].status = 401

\* C30: when a POST of a window is followed by another POST of that window, a
\* sleep lies between them: the extended cooldown after a 429, the standard
\* delay after any other status that is not 200.
C30_RetryPacing ==
  (LastUpload /\ pc = "upload_images") =>
    /\ sleeps # <<>>
    /\ reqs[1].status = 429 => sleeps = <<ratelimit_time * 4>>
    /\ reqs[1].status \notin {200, 429} => sleeps = <<ratelimit_time>>

\* ------------------------------------------- the failure log and the commit
\* C31: no job whose commit POST returned 200 is in failed_uploads, whatever
\* happens afterwards in the same loop iteration, and no DELETE is issued for
\* a draft that was committed.
C31_FailureLogHoldsUncommitted ==
  \A j \in committed :
    /\ j \notin Range(failed_uploads)
    /\ DraftId(j) \notin deletes

\* ------------------------------------------------- the refresh token in use
\* the requests of the step just taken that went to POST /auth/refresh
RefreshRequests == {i \in 1..Len(reqs) : reqs[i].ep = "auth/refresh"}

\* the step just taken ended with a token request answered 200, the one
\* answer a new credential record is written on
RecordMayBeNew ==
  /\ reqs # <<>>
  /\ reqs[Len(reqs)].ep \in {"auth/refresh", "auth/login"}
  /\ reqs[Len(reqs)].status = 200

\* C32: a refresh request carries the refresh token of the most recently
\* persisted credential record: after the step that sent it the record is
\* the one the request named, or the next one, written on the answer to it.
C32_RefreshTokenIsPersistedOne ==
  \A i \in RefreshRequests :
    \/ reqs[i].arg = token_file
    \/ reqs[i].arg + 1 = token_file /\ RecordMayBeNew

\* ---------------------------------------------------- the drafts a DELETE names
\* the requests of the step just taken that were a DELETE of a draft
DeleteRequests == {i \in 1..Len(reqs) : reqs[i].ep = "delete"}

\* the DELETE follows the stale-draft GET and names the draft that GET found
NamesStaleDraft(i) ==
  /\ i > 1
  /\ reqs[i - 1] = Req("upload_get", None, 200)
  /\ reqs[i].arg = StaleDraftId

\* the DELETE names the draft the current job opened
NamesOwnDraft(i) ==
  /\ index \in opened
  /\ reqs[i].arg = DraftId(index)

\* C33: every DELETE names the draft the stale-draft GET returned or the
\* draft the current job opened; a job that opened no draft gets no DELETE,
\* from the interrupt handler or anywhere else, and no DELETE names no draft.
C33_DeleteNamesKnownDraft ==
  /\ \A i \in DeleteRequests : NamesStaleDraft(i) \/ NamesOwnDraft(i)
  /\ None \notin deletes
====
